---- MODULE Spec2Model ----
(***************************************************************************)
(* Remote-asset resolution and caching layer of the Rock Art Database      *)
(* Manager (src/app.py): get_image_url, get_dropbox_temporary_link with    *)
(* its process-wide link cache and lock, and the cloud-optimized-raster    *)
(* proxy.  Request-handling threads run the handlers concurrently; one     *)
(* action is one step of a handler, split where another thread can         *)
(* interleave (lock acquisition, the outbound calls).                      *)
(*                                                                         *)
(* Strings are sequences of one-character strings.  Time is counted in     *)
(* hours: datetime.now() is the variable now, which never goes back.       *)
(***************************************************************************)
EXTENDS Integers, Sequences, FiniteSets, TLC

\* ------------------------------------------------------------------ bounds

\* number of request-handling threads
NumThreads == 2
\* the clock runs from 0 to MaxTime hours
MaxTime == 4
\* links the provider issues in one run; once they are used up every further
\* link-creation call fails
MaxLinks == 2
\* requests served in one run
MaxCalls == 3

Threads == 1..NumThreads

\* --------------------------------------------------------- configuration

\* Config.DROPBOX_LINK_CACHE_TIMEOUT = 3600 * 3 seconds, in hours
DROPBOX_LINK_CACHE_TIMEOUT == 3
\* validity of a temporary link at the provider ("valid for 4 hours")
LinkValidity == 4

DROPBOX_ORIGINAL_FOLDER ==
    <<"/", "S", "o", "q", "o", "t", "r", "a", "/", "R", "O", "C", "K", "A",
      "R", "T", " ", "D", "A", "T", "A", "B", "A", "S", "E", "/", "o", "r",
      "i", "g", "i", "n", "a", "l", "_", "i", "m", "a", "g", "e", "s">>

DROPBOX_THUMBNAIL_FOLDER ==
    <<"/", "S", "o", "q", "o", "t", "r", "a", "/", "R", "O", "C", "K", "A",
      "R", "T", " ", "D", "A", "T", "A", "B", "A", "S", "E", "/", "t", "h",
      "u", "m", "b", "n", "a", "i", "l", "s">>

\* the substring that marks a thumbnail path
ThumbnailMarker == <<"t", "h", "u", "m", "b", "n", "a", "i", "l", "s">>

\* url_for('static', filename=...) prefixes the file name with the static route
StaticPrefix == <<"/", "s", "t", "a", "t", "i", "c", "/">>

\* ---------------------------------------------------------------- inputs

\* Python None
None == [kind |-> "None"]

\* the str values handed to get_image_url ("" is <<>>)
Str(s) == [kind |-> "str", s |-> s]

PathOriginal == <<"a", "\\", "b", ".", "j", "p", "g">>

\* stored paths: separators of both kinds, the marker as a directory, in
\* the file name, in upper and mixed case, cut short, and no file name
PathThumbDir ==
    <<"t", "h", "u", "m", "b", "n", "a", "i", "l", "s", "/", "b", ".", "j",
      "p", "g">>
PathThumbMixed ==
    <<"x", "\\", "T", "h", "u", "m", "b", "N", "a", "i", "l", "s", "\\", "b">>
PathThumbUpper ==
    <<"T", "H", "U", "M", "B", "N", "A", "I", "L", "S", "/", "a", "/", "b">>
PathThumbFile ==
    <<"a", "/", "b", "_", "t", "h", "u", "m", "b", "n", "a", "i", "l", "s",
      ".", "j", "p", "g">>
PathNearMarker ==
    <<"t", "h", "u", "m", "b", "n", "a", "i", "l", "/", "s", ".", "j", "p", "g">>
PathNoSeparator == <<"b", ".", "j", "p", "g">>
PathNoFile == <<"a", "/", "b", "\\">>
PathMixedSeparators == <<"a", "\\", "b", "/", "c", "\\", "d">>

StoredPaths ==
    {PathOriginal, PathThumbDir, PathThumbMixed, PathThumbUpper, PathThumbFile,
     PathNearMarker, PathNoSeparator, PathNoFile, PathMixedSeparators}

\* ------------------------------------------------------ string functions

\* the replace call left out: the path is passed on with its backslashes
ReplaceBackslashNone(s) == s

\* str.replace('\\', '/')
ReplaceBackslash(s) == [i \in 1..Len(s) |-> IF s[i] = "\\" THEN "/" ELSE s[i]]

\* one character of str.lower(), for the letters the inputs use
LowerChar(c) ==
    CASE c = "T" -> "t" [] c = "H" -> "h" [] c = "U" -> "u" [] c = "M" -> "m"
      [] c = "B" -> "b" [] c = "N" -> "n" [] c = "A" -> "a" [] c = "I" -> "i"
      [] c = "L" -> "l" [] c = "S" -> "s" [] c = "J" -> "j" [] c = "P" -> "p"
      [] c = "G" -> "g" [] c = "X" -> "x"
      [] OTHER -> c

\* the comparison made case-sensitive: no lower-casing
LowerNone(s) == s

\* str.lower()
Lower(s) == [i \in 1..Len(s) |-> LowerChar(s[i])]

\* sub in s
Contains(s, sub) ==
    \E i \in 0..(Len(s) - Len(sub)) :
        \A j \in 1..Len(sub) : s[i + j] = sub[j]

\* s.split('/')[-1]: the text after the last '/'
RECURSIVE LastSegment(_)
LastSegment(s) ==
    IF s = <<>> THEN <<>>
    ELSE IF s[Len(s)] = "/" THEN <<>>
    ELSE Append(LastSegment(SubSeq(s, 1, Len(s) - 1)), s[Len(s)])

\* url_for('static', filename=web_path)
StaticUrl(web_path) == [kind |-> "static", s |-> StaticPrefix \o web_path]

\* lines 129-140 of get_image_url: the remote storage path of a logical path
DropboxPath(image_path) ==
    LET normalized_path == ReplaceBackslash(image_path)
        filename == LastSegment(normalized_path)
        dropbox_folder ==
            IF Contains(Lower(normalized_path), ThumbnailMarker)
            THEN DROPBOX_THUMBNAIL_FOLDER
            ELSE DROPBOX_ORIGINAL_FOLDER
    IN  dropbox_folder \o <<"/">> \o filename

\* `image_path is None` in place of `not image_path`
IsNone(p) == p = None

\* `not image_path`: None and the empty string are falsy
IsFalsy(p) == p = None \/ (p.kind = "str" /\ p.s = <<>>)

\* values of the USE_DROPBOX environment variable: unset, and three spellings
EnvTrue == Str(<<"t", "r", "u", "e">>)
EnvFalse == Str(<<"f", "a", "l", "s", "e">>)
EnvCapitalTrue == Str(<<"T", "r", "u", "e">>)
EnvValues == {None, EnvTrue, EnvCapitalTrue, EnvFalse}

\* Config.USE_DROPBOX: os.environ.get('USE_DROPBOX', 'True').lower() == 'true'
ConfigUseDropbox(env) ==
    Lower(IF env = None THEN <<"T", "r", "u", "e">> ELSE env.s)
        = <<"t", "r", "u", "e">>

\* get_cog_url reading the setting as the config does
CogUseDropboxConfig(env) == ConfigUseDropbox(env)

\* get_cog_url, line 1156: os.getenv('USE_DROPBOX') == 'true'
CogUseDropbox(env) == env = EnvTrue

\* ----------------------------------------------------------------- state

VARIABLES
    now,            \* datetime.now(), in hours
    storedPath,     \* the image path stored in the records that are rendered
    envUseDropbox,  \* os.environ.get('USE_DROPBOX'), None when it is unset
    USE_DROPBOX,    \* app.config['USE_DROPBOX']
    tokenSet,       \* app.config['DROPBOX_ACCESS_TOKEN'] is a non-empty token
    cogUrlSet,      \* os.getenv('DROPBOX_COG_URL') is set
    upstream,       \* what the storage provider answers to a GET of that URL
    cache,          \* _dropbox_link_cache: remote path -> [url, expires]
    lockOwner,      \* the thread that holds _cache_lock, 0 when it is free
    pc,             \* where each thread stands in its handler
    image_path,     \* get_image_url's argument
    dropbox_path,   \* get_dropbox_temporary_link's argument
    temp_url,       \* result.link of the outbound call, None before it
    ret,            \* what the handler returned to its caller
    px,             \* cog_proxy: the inbound request and the outbound fetch
    issuedCount,    \* provider: number of temporary links issued so far
    calls,          \* number of requests served so far
    outCalls,       \* history: outbound link-creation calls of the thread's call
    overwritten     \* history: the last unexpired entry an insert replaced

vars == <<now, storedPath, envUseDropbox, USE_DROPBOX, tokenSet, cogUrlSet, upstream, cache, lockOwner, pc,
          image_path, dropbox_path, temp_url, ret, px, issuedCount, calls,
          outCalls, overwritten>>

config == <<storedPath, envUseDropbox, USE_DROPBOX, tokenSet, cogUrlSet, upstream>>
locals == <<image_path, dropbox_path, temp_url, ret>>

\* image_path arguments the callers pass: None, "", and the stored path
ImagePaths == {None, Str(<<>>), Str(storedPath)}

NoThread == 0
NoStore == [kind |-> "NoStore"]

\* result.link: the n-th temporary link of the provider, issued at time `at`
\* for the object at `key` on the request of thread `by`
Link(key, at, n, by) ==
    [kind |-> "link", key |-> key, issued |-> at, n |-> n, by |-> by]

\* what dbx.files_get_temporary_link / dropbox.Dropbox(...) can raise
ExceptionKinds ==
    {"ApiError", "AuthError", "HttpError", "ConnectionError", "Timeout",
     "BadInputException"}

\* `except dropbox.exceptions.ApiError` in place of `except Exception`
CaughtApiError(e) == e = "ApiError"

\* `except Exception` of get_dropbox_temporary_link: every kind is caught
Caught(e) == e \in ExceptionKinds

\* an entry within an hour of its expiry counts as expired
UnexpiredEarly(cached, t) == cached.expires > t + 1

\* `>=` in place of `>`
UnexpiredOrEqual(cached, t) == cached.expires >= t

\* cached['expires'] > datetime.now()
Unexpired(cached, t) == cached.expires > t

\* the expired entry is left in the cache
DelNothing(c, k) == c

\* del _dropbox_link_cache[k]
Del(c, k) == [x \in (DOMAIN c) \ {k} |-> c[x]]

\* the cache keeps the newest entry only
PutAlone(c, k, e) == [x \in {k} |-> e]

\* the entry is stored under the folder in place of the full remote path
PutUnderFolder(c, k, e) ==
    [x \in (DOMAIN c) \cup {DROPBOX_ORIGINAL_FOLDER} |->
        IF x = DROPBOX_ORIGINAL_FOLDER THEN e ELSE c[x]]

\* _dropbox_link_cache[k] = e
Put(c, k, e) == [x \in (DOMAIN c) \cup {k} |-> IF x = k THEN e ELSE c[x]]

\* the thread is between two requests
Ready(t) == pc[t] \in {"idle", "done"}

\* the lock is not released when the block is left
KeepLock(t) == lockOwner' = lockOwner

\* leaving a `with _cache_lock:` block, by falling out of it or by `return`
Release(t) == lockOwner' = NoThread

\* a JSON response: jsonify({...}), status
JsonError(status, body) ==
    [kind |-> "json", status |-> status,
     headers |-> ("Content-Type" :> "application/json"), json |-> body]

\* the value of DROPBOX_COG_URL when it is set
ConfiguredCogUrl == [kind |-> "configured"]

\* get_cog_url, line 1157: the remote path of the large raster
CogDropboxPath ==
    <<"/", "t", "i", "l", "e", "s", "/", "o", "r", "t", "h", "o", "p", "h",
      "o", "t", "o", "_", "s", "h", "p", "0", "4", "2", "_", "c", "o", "g",
      ".", "t", "i", "f">>

\* get_cog_url, lines 1160 and 1166: jsonify({'url': ...})
CogUrlJson(url) == JsonError(200, ("url" :> url))

\* get_cog_url, line 1164
CogUrlNotConfigured == JsonError(500, ("error" :> <<"COG URL not configured">>))

\* get_cog_url, lines 1158-1164: what is answered once
\* get_dropbox_temporary_link has returned `link`
CogUrlAnswer(link) ==
    IF link # None THEN CogUrlJson(link) ELSE CogUrlNotConfigured

\* get_image_url without its fallback: whatever the link call returned is
\* returned
ReturnUrlNoFallback(t, link) ==
    /\ ret' = [ret EXCEPT ![t] = link]
    /\ pc' = [pc EXCEPT ![t] = "done"]
    /\ temp_url' = [temp_url EXCEPT ![t] = None]

\* get_dropbox_temporary_link returned `link` (None after a failure) to its
\* caller.  get_image_url, lines 145-154: the result is the link, or the
\* local static URL; get_cog_url (which has no image path), lines 1158-1164
ReturnUrl(t, link) ==
    /\ ret' = [ret EXCEPT ![t] =
                  IF image_path[t] = None
                  THEN CogUrlAnswer(link)
                  ELSE IF link # None
                  THEN link
                  ELSE StaticUrl(ReplaceBackslash(image_path[t].s))]
    /\ pc' = [pc EXCEPT ![t] = "done"]
    /\ temp_url' = [temp_url EXCEPT ![t] = None]

\* the except clause of lines 98-101: the call returns None to its caller,
\* or the exception leaves it: get_image_url has no handler, get_cog_url
\* catches every exception (lines 1161-1162) and answers as after a failure
Raise(t, e) ==
    IF Caught(e) \/ image_path[t] = None
    THEN ReturnUrl(t, None)
    ELSE /\ pc' = [pc EXCEPT ![t] = "raised"]
         /\ UNCHANGED <<ret, temp_url>>

\* lines 80-86: the client is built (which raises without a token) and the
\* files_get_temporary_link request is sent
SendLinkRequest(t) ==
    IF tokenSet
    THEN /\ pc' = [pc EXCEPT ![t] = "tl_inflight"]
         /\ outCalls' = [outCalls EXCEPT ![t] = @ + 1]
         /\ UNCHANGED <<ret, temp_url>>
    ELSE /\ Raise(t, "BadInputException")
         /\ UNCHANGED outCalls

\* a caller (template filter, /api/records) invokes get_image_url(p);
\* lines 114-143: the empty path, the disabled mode, and the remote path
\* handed to get_dropbox_temporary_link
GetImageUrl(t) ==
    /\ Ready(t)
    /\ calls < MaxCalls
    /\ calls' = calls + 1
    /\ \E p \in ImagePaths :
        /\ image_path' = [image_path EXCEPT ![t] = p]
        /\ IF IsFalsy(p)
           THEN /\ ret' = [ret EXCEPT ![t] = None]
                /\ pc' = [pc EXCEPT ![t] = "done"]
                /\ dropbox_path' = [dropbox_path EXCEPT ![t] = << >>]
           ELSE IF ~USE_DROPBOX
           THEN /\ ret' = [ret EXCEPT ![t] = StaticUrl(ReplaceBackslash(p.s))]
                /\ pc' = [pc EXCEPT ![t] = "done"]
                /\ dropbox_path' = [dropbox_path EXCEPT ![t] = << >>]
           ELSE /\ dropbox_path' = [dropbox_path EXCEPT ![t] = DropboxPath(p.s)]
                /\ pc' = [pc EXCEPT ![t] = "tl_acquire"]
                /\ ret' = [ret EXCEPT ![t] = None]
    /\ outCalls' = [outCalls EXCEPT ![t] = 0]
    /\ UNCHANGED <<now, config, px, cache, lockOwner, temp_url, issuedCount,
                   overwritten>>

\* a thread that is not in cog_proxy
PxIdle ==
    [method |-> "none", req |-> << >>, out |-> << >>, fetches |-> 0,
     answered |-> FALSE, exc |-> "none", pos |-> 0]

\* GET /api/cog-url, lines 1147-1166: the configured URL; without one, the
\* temporary link of the raster when the environment says 'true'; else 500
GetCogUrl(t) ==
    /\ Ready(t)
    /\ calls < MaxCalls
    /\ calls' = calls + 1
    /\ image_path' = [image_path EXCEPT ![t] = None]
    /\ px' = [px EXCEPT ![t] = [PxIdle EXCEPT !.method = "cog-url"]]
    /\ outCalls' = [outCalls EXCEPT ![t] = 0]
    /\ IF cogUrlSet
       THEN /\ ret' = [ret EXCEPT ![t] = CogUrlJson(ConfiguredCogUrl)]
            /\ pc' = [pc EXCEPT ![t] = "done"]
            /\ dropbox_path' = [dropbox_path EXCEPT ![t] = << >>]
       ELSE IF CogUseDropbox(envUseDropbox)
       THEN /\ dropbox_path' = [dropbox_path EXCEPT ![t] = CogDropboxPath]
            /\ pc' = [pc EXCEPT ![t] = "tl_acquire"]
            /\ ret' = [ret EXCEPT ![t] = None]
       ELSE /\ ret' = [ret EXCEPT ![t] = CogUrlNotConfigured]
            /\ pc' = [pc EXCEPT ![t] = "done"]
            /\ dropbox_path' = [dropbox_path EXCEPT ![t] = << >>]
    /\ UNCHANGED <<now, config, cache, lockOwner, temp_url, issuedCount,
                   overwritten>>

\* the block is entered without waiting for the lock
AcquireLookupNoWait(t) ==
    /\ pc[t] = "tl_acquire"
    /\ lockOwner' = t
    /\ pc' = [pc EXCEPT ![t] = "tl_check"]
    /\ UNCHANGED <<now, config, px, cache, locals, issuedCount, calls, outCalls,
                   overwritten>>

\* line 71: with _cache_lock (enter)
AcquireLookup(t) ==
    /\ pc[t] = "tl_acquire"
    /\ lockOwner = NoThread
    /\ lockOwner' = t
    /\ pc' = [pc EXCEPT ![t] = "tl_check"]
    /\ UNCHANGED <<now, config, px, cache, locals, issuedCount, calls, outCalls,
                   overwritten>>

\* lines 72-86, under the lock: the membership test, the expiry comparison
\* and either `return cached['url']` or the eviction; the block is left and
\* the lock released; after a miss the outbound request is sent
Lookup(t) ==
    LET k == dropbox_path[t] IN
    /\ pc[t] = "tl_check"
    /\ lockOwner = t
    /\ Release(t)
    /\ IF k \in DOMAIN cache /\ Unexpired(cache[k], now)
       THEN /\ ReturnUrl(t, cache[k].url)
            /\ UNCHANGED <<cache, outCalls>>
       ELSE /\ cache' = IF k \in DOMAIN cache THEN Del(cache, k) ELSE cache
            /\ SendLinkRequest(t)
    /\ UNCHANGED <<now, config, px, image_path, dropbox_path, issuedCount, calls,
                   overwritten>>

\* lines 86-87: the outbound call returns a link, or raises
LinkCall(t) ==
    /\ pc[t] = "tl_inflight"
    /\ \/ /\ issuedCount < MaxLinks
          /\ issuedCount' = issuedCount + 1
          /\ temp_url' = [temp_url EXCEPT ![t] =
                             Link(dropbox_path[t], now, issuedCount + 1, t)]
          /\ pc' = [pc EXCEPT ![t] = "tl_acquire2"]
          /\ UNCHANGED ret
       \/ /\ \E e \in ExceptionKinds \ {"BadInputException"} : Raise(t, e)
          /\ UNCHANGED issuedCount
    /\ UNCHANGED <<now, config, px, cache, lockOwner, image_path, dropbox_path,
                   calls, outCalls, overwritten>>

\* line 90: with _cache_lock (enter)
AcquireInsert(t) ==
    /\ pc[t] = "tl_acquire2"
    /\ lockOwner = NoThread
    /\ lockOwner' = t
    /\ pc' = [pc EXCEPT ![t] = "tl_insert"]
    /\ UNCHANGED <<now, config, px, cache, locals, issuedCount, calls, outCalls,
                   overwritten>>

\* the first writer wins: an entry that is present is left as it is
InsertIfAbsent(t) ==
    LET k == dropbox_path[t]
        e == [url |-> temp_url[t], expires |-> now + DROPBOX_LINK_CACHE_TIMEOUT]
    IN
    /\ pc[t] = "tl_insert"
    /\ lockOwner = t
    /\ cache' = IF k \in DOMAIN cache THEN cache ELSE Put(cache, k, e)
    /\ Release(t)
    /\ ReturnUrl(t, temp_url[t])
    /\ UNCHANGED <<now, config, px, image_path, dropbox_path, issuedCount, calls,
                   outCalls, overwritten>>

\* the link is returned without being stored
InsertWithoutStore(t) ==
    /\ pc[t] = "tl_insert"
    /\ lockOwner = t
    /\ Release(t)
    /\ ReturnUrl(t, temp_url[t])
    /\ UNCHANGED <<now, config, px, cache, image_path, dropbox_path, issuedCount,
                   calls, outCalls, overwritten>>

\* lines 91-96, under the lock: the link is stored, stamped with
\* now + timeout; the block is left, the lock released, and the link returned
Insert(t) ==
    LET k == dropbox_path[t]
        e == [url |-> temp_url[t], expires |-> now + DROPBOX_LINK_CACHE_TIMEOUT]
    IN
    /\ pc[t] = "tl_insert"
    /\ lockOwner = t
    /\ cache' = Put(cache, k, e)
    /\ Release(t)
    /\ ReturnUrl(t, temp_url[t])
    /\ overwritten' =
          IF k \in DOMAIN cache /\ now < cache[k].expires
          THEN [key |-> k, url |-> cache[k].url, expires |-> cache[k].expires]
          ELSE overwritten
    /\ UNCHANGED <<now, config, px, image_path, dropbox_path, issuedCount, calls,
                   outCalls>>

\* time passes
Tick ==
    /\ now < MaxTime
    /\ now' = now + 1
    /\ UNCHANGED <<config, px, cache, lockOwner, pc, locals, issuedCount, calls,
                   outCalls, overwritten>>

\* ------------------------------------------------------------ the proxy

\* lines 1254-1257: the cross-origin headers of the streamed response
CorsHeaders ==
    ("Access-Control-Allow-Origin" :> "*")
    @@ ("Access-Control-Allow-Methods" :> "GET, OPTIONS")
    @@ ("Access-Control-Allow-Headers" :> "Range")
    @@ ("Access-Control-Expose-Headers" :>
            "Content-Range, Content-Length, Accept-Ranges")

\* lines 1286-1288: the headers cog_proxy_options sets
PreflightHeaders ==
    ("Access-Control-Allow-Origin" :> "*")
    @@ ("Access-Control-Allow-Methods" :> "GET, OPTIONS")
    @@ ("Access-Control-Allow-Headers" :> "Range")

\* the content length is not copied
CopiedHeadersNoLength == {"Content-Range", "Accept-Ranges"}

\* lines 1260-1265: the upstream headers that are copied
CopiedHeaders == {"Content-Range", "Content-Length", "Accept-Ranges"}

\* line 1248: the content type when the upstream gives none
DefaultContentType == "image/tiff"

\* line 1234: response.text[:200]
ErrorExcerptLen == 200

\* line 1234: the text that stands in for an empty upstream body
NoErrorDetails ==
    <<"N", "o", " ", "e", "r", "r", "o", "r", " ",
      "d", "e", "t", "a", "i", "l", "s">>

\* an answer of the storage provider: status line, headers, and the body as
\* the chunks iter_content delivers
Upstream(status, headers, body) ==
    [status |-> status, headers |-> headers, body |-> body]

\* a body one character longer than the excerpt
LongText ==
    [i \in 1..(ErrorExcerptLen + 1) |-> IF i > ErrorExcerptLen THEN "!" ELSE "x"]

\* a byte range of the object, with every header the proxy looks at, one it
\* does not, and an empty chunk in the middle
UpPartial ==
    Upstream(206,
             ("Content-Type" :> "application/octet-stream")
             @@ ("Content-Range" :> "bytes 0-2/1000")
             @@ ("Content-Length" :> "3")
             @@ ("Accept-Ranges" :> "bytes")
             @@ ("ETag" :> "v1"),
             << <<"a", "b">>, << >>, <<"c">> >>)

\* the whole object, without a content type and without a content range
UpWhole ==
    Upstream(200,
             ("Content-Length" :> "3") @@ ("ETag" :> "v1"),
             << <<"a">>, <<"b", "c">> >>)

\* an empty object and no header at all
UpBare == Upstream(200, << >>, << >>)

\* the object is gone; the error page is longer than the excerpt
UpNotFound ==
    Upstream(404, ("Content-Type" :> "text/html") @@ ("Content-Length" :> "201"),
             << LongText >>)

\* a short error text
UpUnauthorized == Upstream(401, << >>, << <<"n">>, <<"o">> >>)

\* an error status with an empty body
UpServerError == Upstream(500, << >>, << >>)

UpstreamAnswers ==
    {UpPartial, UpWhole, UpBare, UpNotFound, UpUnauthorized, UpServerError}

\* response.text: the chunks of the body, joined
RECURSIVE Concat(_)
Concat(chunks) ==
    IF chunks = << >> THEN << >> ELSE Head(chunks) \o Concat(Tail(chunks))

\* the text is not cut
TakeAll(text, n) == text

\* text[:n]
Take(text, n) == SubSeq(text, 1, IF Len(text) < n THEN Len(text) ELSE n)

\* f'{status}'
RECURSIVE Decimal(_)
Decimal(n) ==
    LET digit == <<"0", "1", "2", "3", "4", "5", "6", "7", "8", "9">>[(n % 10) + 1]
    IN  IF n < 10 THEN <<digit>> ELSE Append(Decimal(n \div 10), digit)

\* the value of the Range header of the inbound request
RangeValue == <<"b", "y", "t", "e", "s", "=", "0", "-", "1">>

\* flask_request.headers of the inbound GET: no Range header, a Range
\* header, and a Range header with an empty value
InboundRequests ==
    { ("Accept" :> <<"*">>),
      ("Accept" :> <<"*">>) @@ ("Range" :> RangeValue),
      ("Range" :> << >>) }

\* headers.get(name): the value, or None
HeaderGet(headers, name) ==
    IF name \in DOMAIN headers THEN Str(headers[name]) ELSE None

\* the Range header is not passed on
OutboundHeadersNone(request_headers) == << >>

\* lines 1218-1222: the headers of the outbound GET
OutboundHeaders(request_headers) ==
    LET range_header == HeaderGet(request_headers, "Range") IN
    IF ~IsFalsy(range_header) THEN ("Range" :> range_header.s) ELSE << >>

\* what requests.get raises: Timeout, another RequestException, or
\* some other Exception
FetchExceptions == {"Timeout", "RequestException", "Exception"}

\* str(e)
ExcText(e) ==
    CASE e = "Timeout" -> "read timed out"
      [] e = "RequestException" -> "connection aborted"
      [] OTHER -> "unexpected failure"

\* the status get_cog_url gives to the same condition
NotConfigured500 ==
    JsonError(500, ("error" :> <<"COG URL not configured">>))

\* lines 1212-1215: no target URL
NotConfigured ==
    JsonError(503, ("error" :>
        <<"COG URL not configured. Please set DROPBOX_COG_URL environment variable.">>))

\* lines 1233-1239: the answer to an upstream error status
UpstreamError(up) ==
    LET text == Concat(up.body)
        error_text == IF text # << >> THEN Take(text, ErrorExcerptLen)
                      ELSE NoErrorDetails
    IN  JsonError(503, ("error" :> <<"Dropbox returned">> \o Decimal(up.status))
                       @@ ("details" :> error_text))

\* lines 1269-1279: the three except clauses
ExceptResponse(e) ==
    CASE e = "Timeout" ->
            JsonError(503, ("error" :> <<"Request to Dropbox timed out">>))
      [] e = "RequestException" ->
            JsonError(503, ("error" :> <<"Failed to fetch from Dropbox", ExcText(e)>>))
      [] OTHER ->
            JsonError(500, ("error" :> <<ExcText(e)>>))

\* lines 1245-1265: the streamed response, before its body is iterated
Streamed(up) ==
    [kind |-> "stream",
     status |-> up.status,
     headers |->
        [h \in {"Content-Type"} \cup DOMAIN CorsHeaders
               \cup (CopiedHeaders \cap DOMAIN up.headers) |->
            IF h = "Content-Type"
            THEN IF h \in DOMAIN up.headers THEN up.headers[h]
                 ELSE DefaultContentType
            ELSE IF h \in DOMAIN CorsHeaders THEN CorsHeaders[h]
            ELSE up.headers[h]],
     body |-> << >>]

\* lines 1285-1289: Response() with the pre-flight headers
Preflight ==
    [kind |-> "stream",
     status |-> 200,
     headers |-> ("Content-Type" :> "text/html; charset=utf-8") @@ PreflightHeaders,
     body |-> << >>]

\* cog_proxy, lines 1211-1228: without a target URL the 503 answer; else the
\* GET to the target is sent (no lock is taken on the way)
CogProxy(t) ==
    /\ Ready(t)
    /\ calls < MaxCalls
    /\ calls' = calls + 1
    /\ image_path' = [image_path EXCEPT ![t] = None]
    /\ dropbox_path' = [dropbox_path EXCEPT ![t] = << >>]
    /\ outCalls' = [outCalls EXCEPT ![t] = 0]
    /\ \E req \in InboundRequests :
        IF ~cogUrlSet
        THEN /\ ret' = [ret EXCEPT ![t] = NotConfigured]
             /\ pc' = [pc EXCEPT ![t] = "done"]
             /\ px' = [px EXCEPT ![t] =
                          [PxIdle EXCEPT !.method = "GET", !.req = req]]
        ELSE /\ ret' = [ret EXCEPT ![t] = None]
             /\ pc' = [pc EXCEPT ![t] = "px_fetch"]
             /\ px' = [px EXCEPT ![t] =
                          [PxIdle EXCEPT !.method = "GET",
                                         !.req = req,
                                         !.out = OutboundHeaders(req),
                                         !.fetches = 1]]
    /\ UNCHANGED <<now, config, cache, lockOwner, temp_url, issuedCount,
                   overwritten>>

\* the fetch is tried again after an exception
ProxyExceptRetry(t, e, answered) ==
    /\ px' = [px EXCEPT ![t].exc = e, ![t].fetches = @ + 1]
    /\ pc' = [pc EXCEPT ![t] = "px_fetch"]
    /\ UNCHANGED ret

\* an exception reaches the except clauses of lines 1269-1279, before the
\* upstream has answered or after
ProxyExcept(t, e, answered) ==
    /\ ret' = [ret EXCEPT ![t] = ExceptResponse(e)]
    /\ px' = [px EXCEPT ![t].exc = e, ![t].answered = answered]
    /\ pc' = [pc EXCEPT ![t] = "done"]

\* cog_proxy, lines 1228-1279: requests.get raises, or the upstream answers:
\* an error status is turned into the 503 answer (reading response.text,
\* which can fail as any read from the network), any other status starts
\* the streamed response
ProxyFetch(t) ==
    /\ pc[t] = "px_fetch"
    /\ \/ \E e \in FetchExceptions : ProxyExcept(t, e, FALSE)
       \/ /\ upstream.status >= 400
          /\ \/ /\ ret' = [ret EXCEPT ![t] = UpstreamError(upstream)]
                /\ pc' = [pc EXCEPT ![t] = "done"]
                /\ px' = [px EXCEPT ![t].answered = TRUE]
             \/ ProxyExcept(t, "RequestException", TRUE)
       \/ /\ upstream.status < 400
          /\ ret' = [ret EXCEPT ![t] = Streamed(upstream)]
          /\ pc' = [pc EXCEPT ![t] = "px_stream"]
          /\ px' = [px EXCEPT ![t].answered = TRUE]
    /\ UNCHANGED <<now, config, cache, lockOwner, image_path, dropbox_path,
                   temp_url, issuedCount, calls, outCalls, overwritten>>

\* the chunk is consumed and not passed on
StreamChunkDropped(t) ==
    /\ pc[t] = "px_stream"
    /\ px[t].pos < Len(upstream.body)
    /\ px' = [px EXCEPT ![t].pos = @ + 1]
    /\ UNCHANGED <<now, config, cache, lockOwner, pc, image_path, dropbox_path,
                   temp_url, ret, issuedCount, calls, outCalls, overwritten>>

\* generate(), lines 1242-1245: the next chunk of the upstream body is
\* passed on, unless it is empty
StreamChunk(t) ==
    /\ pc[t] = "px_stream"
    /\ px[t].pos < Len(upstream.body)
    /\ LET chunk == upstream.body[px[t].pos + 1] IN
       ret' = [ret EXCEPT ![t].body = IF chunk # << >> THEN Append(@, chunk) ELSE @]
    /\ px' = [px EXCEPT ![t].pos = @ + 1]
    /\ UNCHANGED <<now, config, cache, lockOwner, pc, image_path, dropbox_path,
                   temp_url, issuedCount, calls, outCalls, overwritten>>

\* the cache is emptied when a transfer completes
StreamEndEvict(t) ==
    /\ pc[t] = "px_stream"
    /\ px[t].pos = Len(upstream.body)
    /\ pc' = [pc EXCEPT ![t] = "done"]
    /\ cache' = [k \in {} |-> cache[k]]
    /\ UNCHANGED <<now, config, lockOwner, image_path, dropbox_path,
                   temp_url, ret, px, issuedCount, calls, outCalls, overwritten>>

\* generate(): iter_content is exhausted and the response is complete
StreamEnd(t) ==
    /\ pc[t] = "px_stream"
    /\ px[t].pos = Len(upstream.body)
    /\ pc' = [pc EXCEPT ![t] = "done"]
    /\ UNCHANGED <<now, config, cache, lockOwner, image_path, dropbox_path,
                   temp_url, ret, px, issuedCount, calls, outCalls, overwritten>>

\* generate(): iter_content raises while the body is iterated; cog_proxy
\* has returned, so no except clause of it is around the generator
StreamFail(t) ==
    /\ pc[t] = "px_stream"
    /\ px[t].pos < Len(upstream.body)
    /\ px' = [px EXCEPT ![t].exc = "RequestException"]
    /\ pc' = [pc EXCEPT ![t] = "raised"]
    /\ UNCHANGED <<now, config, cache, lockOwner, image_path, dropbox_path,
                   temp_url, ret, issuedCount, calls, outCalls, overwritten>>

\* the inbound client goes away while the body is streamed: the WSGI server
\* closes the response iterable, which closes generate(); generate() has no
\* finally clause, no with block and no response.close() (lines 1242-1245)
ClientDisconnect(t) ==
    /\ pc[t] = "px_stream"
    /\ pc' = [pc EXCEPT ![t] = "px_closed"]
    /\ UNCHANGED <<now, config, cache, lockOwner, image_path, dropbox_path,
                   temp_url, ret, px, issuedCount, calls, outCalls, overwritten>>

\* the upstream response of line 1228, which no statement closes, is
\* reclaimed by the interpreter's garbage collection, which closes its
\* connection; when that happens, if at all, is left to the runtime
Finalize(t) ==
    /\ pc[t] = "px_closed"
    /\ pc' = [pc EXCEPT ![t] = "px_finalized"]
    /\ UNCHANGED <<now, config, cache, lockOwner, image_path, dropbox_path,
                   temp_url, ret, px, issuedCount, calls, outCalls, overwritten>>

\* cog_proxy_options, lines 1282-1290
CogProxyOptions(t) ==
    /\ Ready(t)
    /\ calls < MaxCalls
    /\ calls' = calls + 1
    /\ image_path' = [image_path EXCEPT ![t] = None]
    /\ dropbox_path' = [dropbox_path EXCEPT ![t] = << >>]
    /\ outCalls' = [outCalls EXCEPT ![t] = 0]
    /\ ret' = [ret EXCEPT ![t] = Preflight]
    /\ pc' = [pc EXCEPT ![t] = "done"]
    /\ px' = [px EXCEPT ![t] = [PxIdle EXCEPT !.method = "OPTIONS"]]
    /\ UNCHANGED <<now, config, cache, lockOwner, temp_url, issuedCount,
                   overwritten>>

\* one step of a GET of /api/cog-proxy
ProxyStep(t) ==
    \/ ProxyFetch(t)
    \/ StreamChunk(t)
    \/ StreamEnd(t)
    \/ StreamFail(t)

\* the process after start-up: empty cache, free lock, idle threads
Booted ==
    /\ now = 0
    /\ USE_DROPBOX = ConfigUseDropbox(envUseDropbox)
    /\ tokenSet \in BOOLEAN
    /\ cache = << >>
    /\ lockOwner = NoThread
    /\ pc = [t \in Threads |-> "idle"]
    /\ image_path = [t \in Threads |-> None]
    /\ dropbox_path = [t \in Threads |-> << >>]
    /\ temp_url = [t \in Threads |-> None]
    /\ ret = [t \in Threads |-> None]
    /\ px = [t \in Threads |-> PxIdle]
    /\ issuedCount = 0
    /\ calls = 0
    /\ outCalls = [t \in Threads |-> 0]
    /\ overwritten = NoStore

\* get_image_url and cog_proxy read the setting through the config alone:
\* one environment value for each value of Config.USE_DROPBOX
Started ==
    /\ envUseDropbox \in {EnvTrue, EnvFalse}
    /\ storedPath = PathOriginal
    /\ Booted

\* the resolver does not read DROPBOX_COG_URL and fetches nothing from it
Init == Started /\ cogUrlSet = FALSE /\ upstream = UpBare

\* one step of get_dropbox_temporary_link, called by get_image_url
LinkStep(t) ==
    \/ AcquireLookup(t)
    \/ Lookup(t)
    \/ LinkCall(t)
    \/ AcquireInsert(t)
    \/ Insert(t)

\* the resolver: get_image_url calls of all threads, and the clock
Next ==
    \/ \E t \in Threads : GetImageUrl(t) \/ LinkStep(t)
    \/ Tick

Spec == Init /\ [][Next]_vars

\* the resolver and the proxy on the same threads, within one clock hour
\* (no handler's locking depends on the clock)
NextProxy ==
    \/ \E t \in Threads : GetImageUrl(t) \/ LinkStep(t)
    \/ \E t \in Threads : CogProxy(t) \/ ProxyStep(t)

InitProxy == Started /\ cogUrlSet \in BOOLEAN /\ upstream = UpWhole

SpecProxy == InitProxy /\ [][NextProxy]_vars

\* N >= 1 threads have entered get_image_url for the same stored path while
\* the cache is empty, and stand before the lookup; no further call is made
Racing ==
    /\ now = 0
    /\ storedPath = PathOriginal
    /\ envUseDropbox = EnvTrue
    /\ USE_DROPBOX = ConfigUseDropbox(envUseDropbox)
    /\ tokenSet \in BOOLEAN
    /\ px = [t \in Threads |-> PxIdle]
    /\ cache = << >>
    /\ lockOwner = NoThread
    /\ \E racers \in (SUBSET Threads) \ {{}} :
        /\ pc = [t \in Threads |-> IF t \in racers THEN "tl_acquire" ELSE "idle"]
        /\ image_path = [t \in Threads |->
                            IF t \in racers THEN Str(PathOriginal) ELSE None]
        /\ dropbox_path = [t \in Threads |->
                              IF t \in racers THEN DropboxPath(PathOriginal)
                              ELSE << >>]
        /\ calls = Cardinality(racers)
    /\ temp_url = [t \in Threads |-> None]
    /\ ret = [t \in Threads |-> None]
    /\ issuedCount = 0
    /\ outCalls = [t \in Threads |-> 0]
    /\ overwritten = NoStore

InitMiss == Racing /\ cogUrlSet = FALSE /\ upstream = UpBare

NextMiss ==
    \/ \E t \in Threads : LinkStep(t)
    \/ Tick

SpecMiss == InitMiss /\ [][NextMiss]_vars

\* the two handlers of /api/cog-proxy, for every answer of the upstream
NextCog ==
    \E t \in Threads : CogProxy(t) \/ CogProxyOptions(t) \/ ProxyStep(t)

InitCog == Started /\ cogUrlSet \in BOOLEAN /\ upstream \in UpstreamAnswers

SpecCog == InitCog /\ [][NextCog]_vars

\* GETs of /api/cog-proxy whose client may go away during the transfer; the
\* server runs every handler step that can run, the garbage collection of
\* an abandoned upstream response is promised by nothing
NextCancel ==
    \E t \in Threads :
        CogProxy(t) \/ ProxyStep(t) \/ ClientDisconnect(t) \/ Finalize(t)

SpecCancel ==
    /\ InitCog
    /\ [][NextCancel]_vars
    /\ \A t \in Threads : WF_vars(ProxyStep(t))

\* GETs of /api/cog-url under every spelling of the environment variable
NextUrl ==
    \/ \E t \in Threads : GetCogUrl(t) \/ LinkStep(t)
    \/ Tick

InitUrl ==
    /\ envUseDropbox \in EnvValues
    /\ storedPath = PathOriginal
    /\ Booted
    /\ cogUrlSet \in BOOLEAN
    /\ upstream = UpBare

SpecUrl == InitUrl /\ [][NextUrl]_vars

\* get_image_url in remote mode, for every stored path
InitPath ==
    /\ envUseDropbox = EnvTrue
    /\ storedPath \in StoredPaths
    /\ Booted
    /\ tokenSet
    /\ cogUrlSet = FALSE
    /\ upstream = UpBare

\* the clock stands still: the path computation does not read it
NextPath == \E t \in Threads : GetImageUrl(t) \/ LinkStep(t)

SpecPath == InitPath /\ [][NextPath]_vars

\* the two callers of get_dropbox_temporary_link on the same threads, within
\* one clock hour, in remote mode with an access token: two keys, the stored
\* image's and the raster's, share the cache
NextKeys ==
    \E t \in Threads : GetImageUrl(t) \/ GetCogUrl(t) \/ LinkStep(t)

InitKeys ==
    /\ envUseDropbox \in {None, EnvTrue}
    /\ storedPath = PathOriginal
    /\ Booted
    /\ tokenSet
    /\ cogUrlSet \in BOOLEAN
    /\ upstream = UpBare

SpecKeys == InitKeys /\ [][NextKeys]_vars

\* the proxy's two handlers, for every answer of the upstream, on threads
\* that are free while the others are inside get_dropbox_temporary_link
NextTouch ==
    \/ \E t \in Threads : LinkStep(t)
    \/ \E t \in Threads : CogProxy(t) \/ CogProxyOptions(t) \/ ProxyStep(t)

InitTouch == Racing /\ cogUrlSet \in BOOLEAN /\ upstream \in UpstreamAnswers

SpecTouch == InitTouch /\ [][NextTouch]_vars

\* N >= 1 threads have entered get_dropbox_temporary_link while the cache
\* is empty and stand before the lookup, some called by get_image_url for
\* the stored path, the others by get_cog_url for the raster
InitRace ==
    /\ now = 0
    /\ storedPath = PathOriginal
    /\ envUseDropbox = EnvTrue
    /\ USE_DROPBOX = ConfigUseDropbox(envUseDropbox)
    /\ tokenSet \in BOOLEAN
    /\ cogUrlSet = FALSE
    /\ upstream = UpBare
    /\ cache = << >>
    /\ lockOwner = NoThread
    /\ \E images \in SUBSET Threads : \E rasters \in SUBSET (Threads \ images) :
        /\ images \cup rasters # {}
        /\ pc = [t \in Threads |->
                    IF t \in images \cup rasters THEN "tl_acquire" ELSE "idle"]
        /\ image_path = [t \in Threads |->
                            IF t \in images THEN Str(PathOriginal) ELSE None]
        /\ dropbox_path = [t \in Threads |->
                              IF t \in images THEN DropboxPath(PathOriginal)
                              ELSE IF t \in rasters THEN CogDropboxPath
                              ELSE << >>]
        /\ px = [t \in Threads |->
                    IF t \in rasters THEN [PxIdle EXCEPT !.method = "cog-url"]
                    ELSE PxIdle]
        /\ calls = Cardinality(images \cup rasters)
    /\ temp_url = [t \in Threads |-> None]
    /\ ret = [t \in Threads |-> None]
    /\ issuedCount = 0
    /\ outCalls = [t \in Threads |-> 0]
    /\ overwritten = NoStore

SpecRace == InitRace /\ [][NextMiss]_vars

\* the same calls within one clock hour
NextRace == \E t \in Threads : LinkStep(t)

\* the scheduler lets every thread that can take a step take one, and every
\* outbound call returns or raises
SpecRaceFair ==
    /\ InitRace
    /\ [][NextRace]_vars
    /\ \A t \in Threads : WF_vars(LinkStep(t))

\* ---------------------------------------------------------------- claims

\* thread t's cache lookup (lines 71-78) happens in this step
LookupStep(t) == pc[t] = "tl_check" /\ pc'[t] # "tl_check"

\* the thread has sent its link request and not yet returned
InFlightPcs == {"tl_inflight", "tl_acquire2", "tl_insert"}

\* r is the local static URL of the path p with every backslash replaced
\* by a forward slash
IsStaticUrlOf(r, p) ==
    /\ r.kind = "static"
    /\ Len(r.s) = 8 + Len(p)
    /\ SubSeq(r.s, 1, 8) = <<"/", "s", "t", "a", "t", "i", "c", "/">>
    /\ \A i \in 1..Len(p) : r.s[8 + i] = IF p[i] = "\\" THEN "/" ELSE p[i]

\* the step adds no entry to the cache and changes none
NothingStored ==
    \A x \in DOMAIN cache' : x \in DOMAIN cache /\ cache'[x] = cache[x]

\* C1 as stated: once an entry (u, E) has been stored for key k, every later
\* call for k whose lookup happens while now < E returns u without an
\* outbound call, and one whose lookup happens when now >= E makes exactly
\* one outbound call.  The stored entries known at a lookup are the one in
\* the cache and the one the looking-up thread stored itself in an earlier
\* call and that a concurrent insert has replaced since.
C1_AsStated ==
    [][\A t \in Threads : LookupStep(t) =>
        LET k == dropbox_path[t]
            current == IF k \in DOMAIN cache THEN {cache[k]} ELSE {}
            earlier == IF /\ overwritten # NoStore
                          /\ overwritten.key = k
                          /\ overwritten.url.by = t
                       THEN {[url |-> overwritten.url,
                              expires |-> overwritten.expires]}
                       ELSE {}
        IN  \A s \in current \cup earlier :
              /\ (now < s.expires) =>
                    (pc'[t] = "done" /\ ret'[t] = s.url /\ outCalls'[t] = 0)
              /\ (now >= s.expires) =>
                    (pc'[t] = "tl_inflight" /\ outCalls'[t] = 1)]_vars

\* C1 amended: a call whose lookup finds the cache entry of its key
\* unexpired (now < expires) returns that entry's URL, makes no outbound
\* call and asks the provider for nothing; a call whose lookup finds the
\* entry expired (now >= expires) sends one link request, and from then
\* until it returns its count of outbound calls stays exactly one.
C1_CacheHit ==
    [][\A t \in Threads :
        /\ LookupStep(t) =>
            LET k == dropbox_path[t] IN
            /\ (k \in DOMAIN cache /\ now < cache[k].expires) =>
                  /\ pc'[t] = "done"
                  /\ ret'[t] = cache[k].url
                  /\ outCalls'[t] = 0
                  /\ issuedCount' = issuedCount
            /\ (k \in DOMAIN cache /\ now >= cache[k].expires) =>
                  /\ pc'[t] = "tl_inflight"
                  /\ outCalls'[t] = 1
        /\ pc[t] \in InFlightPcs =>
              /\ outCalls[t] = 1
              /\ outCalls'[t] = 1
              /\ pc'[t] \in InFlightPcs \cup {"done"}]_vars

\* a call has returned, without an outbound call, a link that was issued
\* to another thread: it was served from the cache
C1_Witness ==
    \E t \in Threads :
        /\ pc[t] = "done"
        /\ ret[t].kind = "link"
        /\ ret[t].by # t
        /\ outCalls[t] = 0

\* C2: a lookup never returns an entry whose expiry is not strictly later
\* than now: the lookup that finds such an entry removes it in the same
\* step; and an entry leaves the cache only in that way (no background
\* removal).
C2_LazyExpiry ==
    [][/\ \A t \in Threads : LookupStep(t) =>
            LET k == dropbox_path[t] IN
            (k \in DOMAIN cache /\ cache[k].expires <= now) =>
                /\ k \notin DOMAIN cache'
                /\ ret'[t] # cache[k].url
                /\ temp_url'[t] # cache[k].url
       /\ \A k \in (DOMAIN cache) \ (DOMAIN cache') :
            \E t \in Threads :
                /\ LookupStep(t)
                /\ dropbox_path[t] = k
                /\ cache[k].expires <= now]_vars

\* a link was issued and stored (no thread still holds an unstored link),
\* the cache is empty again, and a call is refreshing: the entry was evicted
C2_Witness ==
    /\ cache = << >>
    /\ issuedCount >= 1
    /\ \A t \in Threads : pc[t] \notin {"tl_acquire2", "tl_insert"}
    /\ \E t \in Threads : pc[t] = "tl_inflight"

\* the outbound link call of thread t ends in a failure in this step: the
\* request raises, or the client cannot be built for want of a credential
FailedCall(t) ==
    \/ pc[t] = "tl_inflight" /\ pc'[t] \notin {"tl_inflight", "tl_acquire2"}
    \/ /\ LookupStep(t)
       /\ ~tokenSet
       /\ ~(dropbox_path[t] \in DOMAIN cache
            /\ now < cache[dropbox_path[t]].expires)

\* C3 as stated: when the outbound link call for key k fails, get_image_url
\* returns the local static URL of the backslash-normalized path and the
\* cache contains no entry for k afterward.
C3_AsStated ==
    [][\A t \in Threads : FailedCall(t) =>
        /\ pc'[t] = "done"
        /\ IsStaticUrlOf(ret'[t], image_path[t].s)
        /\ dropbox_path[t] \notin DOMAIN cache']_vars

\* C3 amended: when the outbound link call for key k fails, get_image_url
\* returns the local static URL of the backslash-normalized path and the
\* failed call stores nothing: afterward the cache holds an entry for k
\* only if another, concurrent call for k succeeded and stored its own link.
C3_Fallback ==
    [][\A t \in Threads : FailedCall(t) =>
        /\ pc'[t] = "done"
        /\ IsStaticUrlOf(ret'[t], image_path[t].s)
        /\ NothingStored
        /\ dropbox_path[t] \in DOMAIN cache' =>
              cache'[dropbox_path[t]].url.by # t]_vars

\* a call whose outbound request failed has returned the static URL while
\* the cache holds the link of another thread's call for the same key
C3_Witness ==
    \E t \in Threads :
        /\ pc[t] = "done"
        /\ outCalls[t] = 1
        /\ IsStaticUrlOf(ret[t], image_path[t].s)
        /\ dropbox_path[t] \in DOMAIN cache
        /\ cache[dropbox_path[t]].url.by # t

\* C4: every entry of the cache holds, under key k, a link the provider
\* returned for k; an entry is created or overwritten only by the insert of
\* a thread that holds the link of its own successful call for that key, so
\* a failed call creates and overwrites nothing.
C4_OnlySuccessStored ==
    [][/\ \A k \in DOMAIN cache' :
            /\ cache'[k].url.kind = "link"
            /\ cache'[k].url.key = k
       /\ \A k \in DOMAIN cache' :
            (k \notin DOMAIN cache \/ cache'[k] # cache[k]) =>
                \E t \in Threads :
                    /\ pc[t] = "tl_insert"
                    /\ dropbox_path[t] = k
                    /\ temp_url[t] = cache'[k].url
                    /\ temp_url[t].by = t
       /\ \A t \in Threads : FailedCall(t) => NothingStored]_vars

\* the cache holds the second link the provider issued, after a call
\* whose outbound request failed
C4_Witness ==
    /\ \E k \in DOMAIN cache : cache[k].url.n = 2
    /\ \E t \in Threads :
        /\ pc[t] = "done"
        /\ outCalls[t] = 1
        /\ ret[t].kind = "static"

\* C5: with remote mode disabled the cache stays as it is (empty), the lock
\* is never taken, no outbound call is made, and every call with a non-empty
\* path returns at once the local static URL of the path with backslashes
\* replaced by forward slashes, with or without a credential.
C5_DisabledMode ==
    ~USE_DROPBOX =>
        /\ cache = << >>
        /\ lockOwner = NoThread
        /\ issuedCount = 0
        /\ \A t \in Threads :
            /\ outCalls[t] = 0
            /\ pc[t] \in {"idle", "done"}
            /\ (pc[t] = "done" /\ image_path[t].kind = "str"
                /\ image_path[t].s # << >>) =>
                    IsStaticUrlOf(ret[t], image_path[t].s)

\* disabled mode, a credential configured, and a call for a path with a
\* backslash has returned
C5_Witness ==
    /\ ~USE_DROPBOX
    /\ tokenSet
    /\ \E t \in Threads :
        /\ pc[t] = "done"
        /\ image_path[t] = Str(PathOriginal)
        /\ ret[t].kind = "static"

\* C6: a call of get_image_url with None or the empty string returns None
\* in the same step, in both modes, with no outbound call and no change of
\* the cache, the lock or the provider.  (The caller of a step that serves
\* a request is the ready thread that is past its start afterward and outside
\* of which no thread changes.)
C6_EmptyPath ==
    [][calls' = calls + 1 =>
        \A t \in Threads :
            (/\ Ready(t)
             /\ pc'[t] # "idle"
             /\ \A u \in Threads \ {t} :
                    /\ pc'[u] = pc[u]
                    /\ ret'[u] = ret[u]
                    /\ image_path'[u] = image_path[u]
             /\ image_path'[t] \in {None, Str(<< >>)}) =>
                /\ pc'[t] = "done"
                /\ ret'[t] = None
                /\ outCalls'[t] = 0
                /\ cache' = cache
                /\ lockOwner' = lockOwner
                /\ issuedCount' = issuedCount]_vars

\* enabled mode, a link in the cache, and a call with the empty string has
\* returned None
C6_Witness ==
    /\ USE_DROPBOX
    /\ DOMAIN cache # {}
    /\ \E t \in Threads :
        /\ pc[t] = "done"
        /\ image_path[t] = Str(<< >>)
        /\ ret[t] = None

\* C7: no exception leaves get_image_url: whatever the path, the
\* configuration and the outcome of the outbound call, a call that has
\* ended has returned a link, a local static URL, or None for an empty path.
C7_NeverRaises ==
    \A t \in Threads :
        /\ pc[t] # "raised"
        /\ pc[t] = "done" =>
              /\ ret[t].kind \in {"None", "static", "link"}
              /\ ret[t] = None =>
                    (image_path[t] = None \/ image_path[t] = Str(<< >>))

\* enabled mode without a credential: building the client raised, and the
\* call has returned the static URL
C7_Witness ==
    /\ USE_DROPBOX
    /\ ~tokenSet
    /\ \E t \in Threads : pc[t] = "done" /\ ret[t].kind = "static"

\* the threads that made one of the concurrent calls
Racers == {t \in Threads : pc[t] # "idle"}

AllReturned == \A t \in Racers : pc[t] = "done"

NonEmptyUrl(r) == r.kind = "link" \/ (r.kind = "static" /\ Len(r.s) > 0)

\* C8 as stated: once N concurrent calls that started with no entry for
\* their key have all returned, each has returned a non-empty URL and the
\* cache holds exactly one entry for the key.
C8_AsStated ==
    AllReturned =>
        /\ \A t \in Racers : NonEmptyUrl(ret[t])
        /\ DOMAIN cache = {DropboxPath(PathOriginal)}

\* C8 amended: once they have all returned, each call has returned a
\* non-empty URL (a link, or the local static URL when its outbound call
\* failed) and the cache holds at most one entry, for that key: none if
\* every outbound call failed, exactly one if some call returned a link and
\* less than the cache timeout has passed since the calls started.
C8_ConcurrentMisses ==
    AllReturned =>
        /\ \A t \in Racers : NonEmptyUrl(ret[t])
        /\ DOMAIN cache \subseteq {DropboxPath(PathOriginal)}
        /\ (\A t \in Racers : ret[t].kind = "static") => cache = << >>
        /\ ((\E t \in Racers : ret[t].kind = "link")
            /\ now < DROPBOX_LINK_CACHE_TIMEOUT) =>
              DropboxPath(PathOriginal) \in DOMAIN cache

\* two concurrent misses have both returned, each its own link, and one
\* entry is in the cache
C8_Witness ==
    /\ AllReturned
    /\ DOMAIN cache = {DropboxPath(PathOriginal)}
    /\ \E t, u \in Racers :
        /\ ret[t].kind = "link" /\ ret[t].by = t
        /\ ret[u].kind = "link" /\ ret[u].by = u
        /\ t # u

\* C9: a thread whose outbound link request or whose proxy fetch is in
\* flight does not hold _cache_lock.
C9_NoLockInFlight ==
    \A t \in Threads :
        pc[t] \in {"tl_inflight", "px_fetch"} => lockOwner # t

\* one thread's link request is in flight while another thread is inside
\* a guarded section
C9_Witness ==
    \E t, u \in Threads :
        /\ t # u
        /\ pc[t] = "tl_inflight"
        /\ lockOwner = u

\* C10 as stated: every URL returned from a cache hit is, at that time,
\* within the provider's validity window, which starts when the provider
\* issues the link.
C10_AsStated ==
    [][\A t \in Threads :
        (LookupStep(t) /\ pc'[t] = "done" /\ ret'[t].kind = "link") =>
            now < ret'[t].issued + LinkValidity]_vars

\* the response r carries the four cross-origin headers
HasCors(r) ==
    /\ "Access-Control-Allow-Origin" \in DOMAIN r.headers
    /\ r.headers["Access-Control-Allow-Origin"] = "*"
    /\ "Access-Control-Allow-Methods" \in DOMAIN r.headers
    /\ r.headers["Access-Control-Allow-Methods"] = "GET, OPTIONS"
    /\ "Access-Control-Allow-Headers" \in DOMAIN r.headers
    /\ r.headers["Access-Control-Allow-Headers"] = "Range"
    /\ "Access-Control-Expose-Headers" \in DOMAIN r.headers
    /\ r.headers["Access-Control-Expose-Headers"] =
          "Content-Range, Content-Length, Accept-Ranges"

\* the handler of thread t has produced a response
Responded(t) == ret[t].kind \in {"json", "stream"}

\* C11 as stated: every response of the GET proxy carries the four
\* cross-origin headers, on the success path and on every error path.
C11_AsStated ==
    \A t \in Threads :
        (px[t].method = "GET" /\ Responded(t)) => HasCors(ret[t])

\* C12 as stated: the pre-flight answer has an empty body and the four
\* cross-origin headers of the GET proxy, the expose-headers entry included,
\* and is given without an outbound call, whether or not the target URL is
\* configured and whatever the upstream would answer.
C12_AsStated ==
    \A t \in Threads :
        (px[t].method = "OPTIONS" /\ Responded(t)) =>
            /\ ret[t].body = << >>
            /\ px[t].fetches = 0
            /\ HasCors(ret[t])

\* C13 as stated: a timeout, a transport failure and any other exception of
\* the outbound fetch each give a 503 response, and responses to failures
\* of different kinds carry different error messages.
C13_AsStated ==
    \A t \in Threads :
        (px[t].method = "GET" /\ pc[t] = "done" /\ px[t].exc # "none") =>
            /\ ret[t].kind = "json"
            /\ ret[t].status = 503
            /\ \A u \in Threads :
                (px[u].method = "GET" /\ pc[u] = "done"
                 /\ px[u].exc \notin {"none", px[t].exc}) =>
                    ret[u].json["error"] # ret[t].json["error"]

\* the characters of the chunks of a body from chunk i on, in order
RECURSIVE BodyFrom(_, _)
BodyFrom(body, i) ==
    IF i > Len(body) THEN << >>
    ELSE [j \in 1..(Len(body[i]) + Len(BodyFrom(body, i + 1))) |->
            IF j <= Len(body[i]) THEN body[i][j]
            ELSE BodyFrom(body, i + 1)[j - Len(body[i])]]

\* the three decimal digits of a status code
StatusDigits(n) ==
    LET d(k) == CASE k = 0 -> "0" [] k = 1 -> "1" [] k = 2 -> "2" [] k = 3 -> "3"
                  [] k = 4 -> "4" [] k = 5 -> "5" [] k = 6 -> "6" [] k = 7 -> "7"
                  [] k = 8 -> "8" [] k = 9 -> "9"
    IN  <<d(n \div 100), d((n \div 10) % 10), d(n % 10)>>

\* thread t's GET has ended after the upstream answered with an error status
AnsweredError(t) ==
    /\ px[t].method = "GET"
    /\ pc[t] = "done"
    /\ px[t].answered
    /\ upstream.status >= 400

\* C14 as stated: whenever the upstream answers with a status >= 400, the
\* response is a 503 JSON response whose error names the upstream status and
\* whose details are an excerpt (a leading part) of at most 200 characters
\* of the upstream body.
C14_AsStated ==
    \A t \in Threads : AnsweredError(t) =>
        LET text == BodyFrom(upstream.body, 1) IN
        /\ ret[t].kind = "json"
        /\ ret[t].status = 503
        /\ ret[t].json["error"] = <<"Dropbox returned", StatusDigits(upstream.status)[1],
                                    StatusDigits(upstream.status)[2],
                                    StatusDigits(upstream.status)[3]>>
        /\ "details" \in DOMAIN ret[t].json
        /\ Len(ret[t].json["details"]) <= 200
        /\ Len(ret[t].json["details"]) <= Len(text)
        /\ \A i \in 1..Len(ret[t].json["details"]) :
              ret[t].json["details"][i] = text[i]

\* C14 amended: whenever the upstream answers with a status >= 400, the
\* response is a 503 JSON response and the upstream body is not streamed.
\* If the upstream body was read, the error names the upstream status and
\* the details are the first 200 characters of the body (the whole body if
\* it is shorter), or the fixed text "No error details" if the body is
\* empty; if reading the body failed, the response is that of a transport
\* failure and has no details.
C14_UpstreamError ==
    \A t \in Threads :
        /\ (px[t].answered /\ upstream.status >= 400) => pc[t] # "px_stream"
        /\ AnsweredError(t) =>
            LET text == BodyFrom(upstream.body, 1)
                n == IF Len(text) < 200 THEN Len(text) ELSE 200
            IN
            /\ ret[t].kind = "json"
            /\ ret[t].status = 503
            /\ px[t].exc = "none" =>
                /\ ret[t].json["error"] =
                      <<"Dropbox returned", StatusDigits(upstream.status)[1],
                        StatusDigits(upstream.status)[2],
                        StatusDigits(upstream.status)[3]>>
                /\ DOMAIN ret[t].json = {"error", "details"}
                /\ IF text = << >>
                   THEN ret[t].json["details"] =
                          <<"N", "o", " ", "e", "r", "r", "o", "r", " ",
                            "d", "e", "t", "a", "i", "l", "s">>
                   ELSE /\ Len(ret[t].json["details"]) = n
                        /\ \A i \in 1..n : ret[t].json["details"][i] = text[i]
            /\ px[t].exc # "none" =>
                /\ px[t].exc = "RequestException"
                /\ DOMAIN ret[t].json = {"error"}
                /\ ret[t].json["error"][1] = "Failed to fetch from Dropbox"

\* the upstream answered 404 with a body of 201 characters, and the
\* response carries its first 200
C14_Witness ==
    \E t \in Threads :
        /\ AnsweredError(t)
        /\ upstream.status = 404
        /\ Len(BodyFrom(upstream.body, 1)) = 201
        /\ px[t].exc = "none"
        /\ Len(ret[t].json["details"]) = 200

\* C15: without a target URL the GET proxy answers 503 with a JSON body
\* that says the target is not configured, and sends no outbound request,
\* whether the inbound request has a Range header or not.
C15_NotConfigured ==
    \A t \in Threads :
        (px[t].method = "GET" /\ ~cogUrlSet) =>
            /\ pc[t] = "done"
            /\ ret[t].kind = "json"
            /\ ret[t].status = 503
            /\ DOMAIN ret[t].json = {"error"}
            /\ ret[t].json["error"] =
                  <<"COG URL not configured. Please set DROPBOX_COG_URL environment variable.">>
            /\ px[t].fetches = 0
            /\ px[t].out = << >>
            /\ ~px[t].answered

\* without a target URL, a request with a Range header and a request
\* without one have both been answered
C15_Witness ==
    /\ ~cogUrlSet
    /\ \E t, u \in Threads :
        /\ px[t].method = "GET" /\ "Range" \in DOMAIN px[t].req
        /\ px[t].req["Range"] # << >>
        /\ px[u].method = "GET" /\ "Range" \notin DOMAIN px[u].req
        /\ ret[t].kind = "json" /\ ret[u].kind = "json"

\* thread t's GET has started a streamed response
Streaming(t) ==
    /\ px[t].method = "GET"
    /\ px[t].answered
    /\ upstream.status < 400

\* C16: for an upstream status below 400 the response has the upstream's
\* status, and its body is at every moment the bytes of the upstream chunks
\* received so far, in the upstream's order, and is the whole upstream body
\* when the response is complete.
C16_PassThrough ==
    \A t \in Threads : Streaming(t) =>
        /\ pc[t] \in {"px_stream", "done", "raised"}
        /\ ret[t].kind = "stream"
        /\ ret[t].status = upstream.status
        /\ BodyFrom(ret[t].body, 1) =
              BodyFrom(SubSeq(upstream.body, 1, px[t].pos), 1)
        /\ pc[t] = "done" =>
              BodyFrom(ret[t].body, 1) = BodyFrom(upstream.body, 1)

\* a 206 answer of three chunks, one of them empty, has been passed on
\* completely
C16_Witness ==
    \E t \in Threads :
        /\ Streaming(t)
        /\ pc[t] = "done"
        /\ ret[t].status = 206
        /\ px[t].pos = 3
        /\ BodyFrom(ret[t].body, 1) = <<"a", "b", "c">>

\* C17: on the success path each of Content-Range, Content-Length and
\* Accept-Ranges is in the response, with the upstream's value, exactly when
\* the upstream supplied it; the content type is the upstream's, or
\* image/tiff when the upstream gives none; no other upstream header is
\* copied.
C17_CopiedHeaders ==
    \A t \in Threads : Streaming(t) =>
        /\ \A h \in {"Content-Range", "Content-Length", "Accept-Ranges"} :
            /\ h \in DOMAIN ret[t].headers <=> h \in DOMAIN upstream.headers
            /\ h \in DOMAIN upstream.headers =>
                  ret[t].headers[h] = upstream.headers[h]
        /\ "Content-Type" \in DOMAIN ret[t].headers
        /\ ret[t].headers["Content-Type"] =
              IF "Content-Type" \in DOMAIN upstream.headers
              THEN upstream.headers["Content-Type"]
              ELSE "image/tiff"
        /\ DOMAIN ret[t].headers \subseteq
              {"Content-Type", "Content-Range", "Content-Length", "Accept-Ranges",
               "Access-Control-Allow-Origin", "Access-Control-Allow-Methods",
               "Access-Control-Allow-Headers", "Access-Control-Expose-Headers"}

\* the upstream sent a content length and an entity tag but no content
\* range and no content type
C17_Witness ==
    \E t \in Threads :
        /\ Streaming(t)
        /\ "ETag" \in DOMAIN upstream.headers
        /\ "Content-Range" \notin DOMAIN upstream.headers
        /\ "Content-Length" \in DOMAIN ret[t].headers
        /\ ret[t].headers["Content-Type"] = "image/tiff"

\* C18 as stated: the outbound GET carries the inbound Range header,
\* character for character, whenever the inbound request has one, no Range
\* header when it has none, and no other header.
C18_AsStated ==
    \A t \in Threads : px[t].fetches >= 1 =>
        /\ "Range" \in DOMAIN px[t].req =>
              /\ "Range" \in DOMAIN px[t].out
              /\ px[t].out["Range"] = px[t].req["Range"]
        /\ "Range" \notin DOMAIN px[t].req => "Range" \notin DOMAIN px[t].out
        /\ DOMAIN px[t].out \subseteq {"Range"}

\* C18 amended: the outbound GET carries the inbound Range header,
\* character for character, whenever the inbound request has one with a
\* non-empty value; it carries no Range header when the inbound request has
\* none or has one with an empty value; no other inbound header is
\* forwarded.
C18_RangeForwarded ==
    \A t \in Threads : px[t].fetches >= 1 =>
        /\ ("Range" \in DOMAIN px[t].req /\ px[t].req["Range"] # << >>) =>
              /\ "Range" \in DOMAIN px[t].out
              /\ px[t].out["Range"] = px[t].req["Range"]
        /\ ("Range" \notin DOMAIN px[t].req \/ px[t].req["Range"] = << >>) =>
              "Range" \notin DOMAIN px[t].out
        /\ DOMAIN px[t].out \subseteq {"Range"}

\* a fetch with the inbound range bytes=0-1 is in flight
C18_Witness ==
    \E t \in Threads :
        /\ pc[t] = "px_fetch"
        /\ "Accept" \in DOMAIN px[t].req
        /\ "Range" \in DOMAIN px[t].out
        /\ px[t].out["Range"] = <<"b", "y", "t", "e", "s", "=", "0", "-", "1">>

\* C19: no operation retries: a call of get_image_url makes at most one
\* outbound link-creation call and a GET of the proxy at most one outbound
\* fetch; the step in which the outbound call fails ends the operation with
\* the fallback (resolver) or an error response (proxy), and makes no
\* further outbound call.
C19_NoRetry ==
    [][\A t \in Threads :
        /\ outCalls'[t] <= 1
        /\ px'[t].fetches <= 1
        /\ FailedCall(t) =>
              /\ pc'[t] = "done"
              /\ ret'[t].kind = "static"
              /\ outCalls'[t] = outCalls[t]
        /\ (pc[t] = "px_fetch" /\ px'[t].exc # px[t].exc) =>
              /\ pc'[t] = "done"
              /\ ret'[t].kind = "json"
              /\ px'[t].fetches = 1]_vars

\* one thread has fallen back after its failed link call, and another has
\* answered with an error after its failed fetch
C19_Witness ==
    \E t, u \in Threads :
        /\ pc[t] = "done" /\ ret[t].kind = "static" /\ outCalls[t] = 1
        /\ pc[u] = "done" /\ px[u].exc # "none" /\ px[u].fetches = 1

\* C20 as stated: no failure of an outbound call leaves the resolver or the
\* proxy as an exception, a failure while the body is streamed included:
\* every failure ends in the fallback value or a JSON error response.
C20_AsStated ==
    \A t \in Threads :
        /\ pc[t] # "raised"
        /\ px[t].exc # "none" => (pc[t] = "done" /\ ret[t].kind = "json")

\* the upstream connection of a streamed response is held from the answer
\* until the body is exhausted, the read fails, or the response is reclaimed
ConnectionHeld(t) == pc[t] \in {"px_stream", "px_closed"}

CogUrlCaller(t) == px[t].method = "cog-url" /\ image_path[t] = None

\* the lookup of the thread's step finds an unexpired entry for its key
LookupHit(t) ==
    /\ LookupStep(t)
    /\ dropbox_path[t] \in DOMAIN cache
    /\ now < cache[dropbox_path[t]].expires

\* C22 (as stated): get_cog_url answers {url: configured URL} when a URL is
\* configured; with none configured and remote mode enabled it goes through
\* the resolver's temporary-link path and answers {url: link} when that
\* succeeds; it answers the 500 error only when no URL is configured and the
\* fallback is unavailable or fails; it never raises
C22_AsStated ==
    /\ [](\A t \in Threads :
            CogUrlCaller(t) =>
                /\ pc[t] # "raised"
                /\ (pc[t] = "done" /\ cogUrlSet) =>
                       ret[t] = CogUrlJson(ConfiguredCogUrl)
                /\ (pc[t] = "done" /\ ~cogUrlSet /\ USE_DROPBOX) =>
                       dropbox_path[t] = CogDropboxPath)
    /\ [][\A t \in Threads :
            (CogUrlCaller(t) /\ pc[t] # "done" /\ pc'[t] = "done") =>
                /\ LookupHit(t) =>
                       ret'[t] = CogUrlJson(cache[dropbox_path[t]].url)
                /\ pc[t] = "tl_insert" => ret'[t] = CogUrlJson(temp_url[t])
                /\ ret'[t].status = 500 =>
                       (~cogUrlSet /\ (~USE_DROPBOX \/ FailedCall(t)))]_vars

\* a path separator of either kind
IsSep(c) == c \in {"/", "\\"}

MarkerUpper == <<"T", "H", "U", "M", "B", "N", "A", "I", "L", "S">>

\* 'thumbnails', in any mix of cases, stands in p right after position i
MarkerAt(p, i) ==
    \A j \in 1..Len(ThumbnailMarker) :
        p[i + j] \in {ThumbnailMarker[j], MarkerUpper[j]}

HasMarker(p) == \E i \in 0..(Len(p) - Len(ThumbnailMarker)) : MarkerAt(p, i)

\* d is <folder>/<basename> for the path p: the basename is the longest
\* separator-free end of p, the folder is decided by the marker
IsRemotePathOf(d, p) ==
    \E n \in 0..Len(p) :
        /\ \A i \in (Len(p) - n + 1)..Len(p) : ~IsSep(p[i])
        /\ n < Len(p) => IsSep(p[Len(p) - n])
        /\ d = (IF HasMarker(p) THEN DROPBOX_THUMBNAIL_FOLDER
                ELSE DROPBOX_ORIGINAL_FOLDER)
               \o <<"/">> \o SubSeq(p, Len(p) - n + 1, Len(p))

\* the thread's get_image_url call has computed a remote path
PathComputed(t) ==
    /\ image_path[t] # None
    /\ image_path[t].s # << >>
    /\ USE_DROPBOX
    /\ pc[t] # "idle"

\* C23: the remote path get_image_url computes is <folder>/<basename>, the
\* basename being the text after the last separator of either kind and the
\* folder the thumbnail folder exactly when the path holds 'thumbnails' in
\* any case anywhere; two computations for the same path agree, whatever the
\* cache holds and whatever calls happened in between
C23_RemotePath ==
    \A t \in Threads :
        PathComputed(t) =>
            /\ IsRemotePathOf(dropbox_path[t], image_path[t].s)
            /\ \A u \in Threads :
                   (PathComputed(u) /\ image_path[u] = image_path[t]) =>
                       dropbox_path[u] = dropbox_path[t]

\* a mixed-case marker between backslashes, computed by one thread while the
\* cache was empty and by another after an entry had been stored
C23_Witness ==
    \E t, u \in Threads :
        /\ t # u
        /\ storedPath = PathThumbMixed
        /\ PathComputed(t) /\ PathComputed(u)
        /\ dropbox_path[t] = DROPBOX_THUMBNAIL_FOLDER \o <<"/", "b">>
        /\ pc[t] = "done" /\ pc[u] = "tl_acquire"
        /\ DOMAIN cache # {}

ProxyMove ==
    \/ calls' # calls
    \/ \E t \in Threads :
        /\ pc[t] \in {"px_fetch", "px_stream"}
        /\ (pc'[t] # pc[t] \/ px'[t] # px[t] \/ ret'[t] # ret[t])

\* C25: cog_proxy and cog_proxy_options leave the cache unchanged and never
\* take _cache_lock, on the success path, on an upstream error, on a timeout
\* or transport failure, and when no URL is configured
C25_ProxyLeavesCache ==
    /\ [](\A t \in Threads :
            (pc[t] \in {"px_fetch", "px_stream"}
             \/ (px[t].method \in {"GET", "OPTIONS"} /\ pc[t] \in {"done", "raised"}))
                => lockOwner # t)
    /\ [][ProxyMove => (cache' = cache /\ lockOwner' = lockOwner)]_vars

\* a body is being streamed while the cache holds an entry and a resolver
\* thread holds the lock
C25_Witness ==
    \E t, u \in Threads :
        /\ pc[t] = "px_stream" /\ px[t].pos >= 1
        /\ lockOwner = u /\ pc[u] = "tl_insert"
        /\ DOMAIN cache # {}

\* every key but k has the same entry, or none, before and after the step
OthersKept(k) ==
    /\ (DOMAIN cache') \ {k} = (DOMAIN cache) \ {k}
    /\ \A x \in (DOMAIN cache) \ {k} : cache'[x] = cache[x]

\* thread t, back from a successful link-creation call for its key, stores
\* the link it was given, stamped with now + timeout
StoresOwnLink(t) ==
    LET k == dropbox_path[t] IN
    /\ pc[t] = "tl_insert" /\ pc'[t] # "tl_insert"
    /\ temp_url[t].kind = "link"
    /\ temp_url[t].key = k
    /\ k \in DOMAIN cache'
    /\ cache'[k].url = temp_url[t]
    /\ cache'[k].expires = now + DROPBOX_LINK_CACHE_TIMEOUT
    /\ OthersKept(k)

\* thread t's lookup of its key finds the entry expired and deletes it
DeletesExpired(t) ==
    LET k == dropbox_path[t] IN
    /\ LookupStep(t)
    /\ k \in DOMAIN cache
    /\ cache[k].expires <= now
    /\ k \notin DOMAIN cache'
    /\ OthersKept(k)

\* C26: every change of the cache is the creation of the entry for k after
\* a successful link call for k, the overwriting of the entry for k after
\* such a call, or the deletion of the entry for k by a lookup of k that
\* finds it expired; an unexpired entry is never deleted
C26_CacheChanges ==
    [][/\ cache' # cache =>
              \E t \in Threads :
                  \/ StoresOwnLink(t) /\ dropbox_path[t] \notin DOMAIN cache
                  \/ StoresOwnLink(t) /\ dropbox_path[t] \in DOMAIN cache
                  \/ DeletesExpired(t)
       /\ \A k \in DOMAIN cache :
              now < cache[k].expires => k \in DOMAIN cache']_vars

\* the three kinds have all happened: an expired entry was deleted by a
\* lookup whose thread is still in flight, after an overwrite, and the other
\* thread's entry had been created before
C26_Witness ==
    /\ overwritten # NoStore
    /\ DOMAIN cache = {}
    /\ \E t \in Threads : pc[t] = "tl_inflight"

\* C27: of concurrent calls that missed on the same key and whose outbound
\* calls succeeded, each returns the link its own outbound call produced,
\* and each insert leaves its own link as the entry, so that the entry left
\* is the last inserter's
C27_LastInsertWins ==
    [][\A t \in Threads :
         (pc[t] = "tl_insert" /\ pc'[t] # "tl_insert") =>
             /\ temp_url[t].kind = "link"
             /\ temp_url[t].by = t
             /\ temp_url[t].key = dropbox_path[t]
             /\ pc'[t] = "done"
             /\ ret'[t] = temp_url[t]
             /\ dropbox_path[t] \in DOMAIN cache'
             /\ cache'[dropbox_path[t]].url = temp_url[t]]_vars

\* both calls missed, both outbound calls succeeded, both have returned
\* their own link; the first insert's entry was replaced by the second's
C27_Witness ==
    \E t, u \in Threads :
        /\ t # u
        /\ pc[t] = "done" /\ pc[u] = "done"
        /\ outCalls[t] = 1 /\ outCalls[u] = 1
        /\ ret[t].kind = "link" /\ ret[t].by = t
        /\ ret[u].kind = "link" /\ ret[u].by = u
        /\ overwritten # NoStore
        /\ overwritten.url = ret[t]
        /\ DropboxPath(PathOriginal) \in DOMAIN cache
        /\ cache[DropboxPath(PathOriginal)].url = ret[u]

\* the thread is inside one of the two `with _cache_lock:` blocks
InGuarded(t) == pc[t] \in {"tl_check", "tl_insert"}

\* C28: at most one thread is inside a lock-guarded section of
\* get_dropbox_temporary_link, and it is the thread that holds the lock
C28_MutualExclusion ==
    \A t, u \in Threads :
        InGuarded(t) => (lockOwner = t /\ (InGuarded(u) => u = t))

\* one thread is inside the insert block while another, which has arrived
\* at the lookup block, is kept out
C28_Witness ==
    \E t, u \in Threads :
        /\ t # u
        /\ pc[t] = "tl_insert"
        /\ pc[u] = "tl_acquire"
        /\ lockOwner = t
        /\ ~ENABLED AcquireLookup(u)

\* C29: under fair scheduling, with every outbound call returning or
\* raising, every call of get_dropbox_temporary_link returns; a thread that
\* has left a guarded section does not hold the lock
C29_EveryCallReturns ==
    /\ [](\A t \in Threads : ~InGuarded(t) => lockOwner # t)
    /\ \A t \in Threads : (pc[t] = "tl_acquire") ~> (pc[t] = "done")

\* a thread waits for the lock at the insert block while a thread with
\* another key holds it, after a third exit (a lookup) has released it
C29_Witness ==
    \E t, u \in Threads :
        /\ dropbox_path[t] # dropbox_path[u]
        /\ pc[t] = "tl_acquire2"
        /\ pc[u] = "tl_check"
        /\ lockOwner = u

\* C30: a call of get_dropbox_temporary_link for key k changes at most the
\* entry for k: whatever step the calling thread takes, every other key has
\* the same entry (presence, URL, expiry) before and after it, expired or not
C30_OtherKeysKept ==
    [][\A t \in Threads :
         pc'[t] # pc[t] => OthersKept(dropbox_path[t])]_vars

\* a call for one key has stored its link while the other key's entry, which
\* had expired before that insert, is still in the cache
C30_Witness ==
    \E t \in Threads : \E k \in DOMAIN cache :
        /\ pc[t] = "done"
        /\ dropbox_path[t] \in DOMAIN cache
        /\ k # dropbox_path[t]
        /\ cache[dropbox_path[t]].url.by = t
        /\ cache[k].expires + DROPBOX_LINK_CACHE_TIMEOUT
               <= cache[dropbox_path[t]].expires

====
